---- MODULE Spec2Model ----
(***************************************************************************)
(* The DHCPv4 codec of src/lib/dhcp.c: fr_dhcp_recv, fr_dhcp_decode,       *)
(* attr_cmp, fr_dhcp_vp2attr and fr_dhcp_encode, as one request/reply      *)
(* exchange: a datagram arrives, is validated, decoded to an attribute     *)
(* list, the host builds a reply, the reply is encoded and routed, and the *)
(* encoded reply is decoded again.                                         *)
(*                                                                         *)
(* Datagrams are sequences of bytes; C offset k is element k + 1.          *)
(***************************************************************************)
EXTENDS Integers, Sequences, FiniteSets, TLC

VARIABLES
    endian,       \* byte order of the build: "little" or "big"
    wire,         \* the datagram waiting on the socket
    stale,        \* what the malloc'd receive buffer holds past data_len
    rawint,       \* what vp_integer reads from a pair decoded as raw OCTETS
    pc,           \* position in the exchange
    req_data,     \* request packet->data (its length is data_len)
    req_code,     \* request packet->code
    req_vps,      \* request packet->vps
    rc_decode,    \* what fr_dhcp_decode(request) returned
    rep_from,     \* how the host built the reply's pairs
    rep_code,     \* reply packet->code
    rep_vps,      \* reply packet->vps
    rep_dst,      \* reply packet->dst_ipaddr.ipaddr.ip4addr (4 bytes)
    rep_data,     \* reply packet->data, up to the highest byte written
    rep_len,      \* reply packet->data_len
    rep_size,     \* dhcp_size: the reply's length before padding
    rc_encode,    \* how fr_dhcp_encode(reply) ended
    null_reads,   \* loads made through a NULL original before it ended
    rt_vps,       \* packet->vps of the reply decoded again
    rc_redecode   \* what fr_dhcp_decode(reply) returned

vars == <<endian, wire, stale, rawint, pc, req_data, req_code, req_vps, rc_decode,
          rep_from, rep_code, rep_vps, rep_dst, rep_data, rep_len, rep_size,
          rc_encode, null_reads, rt_vps, rc_redecode>>

-----------------------------------------------------------------------------
(* Program constants *)

DHCP_CHADDR_LEN == 16
DHCP_SNAME_LEN == 64
DHCP_FILE_LEN == 128
DHCP_OPTION_MAGIC_NUMBER == <<99, 130, 83, 99>>     \* 0x63825363, big-endian
MIN_PACKET_SIZE == 244
DEFAULT_PACKET_SIZE == 576
MAX_PACKET_SIZE == 1460
PW_DHCP_OFFSET == 1024
PW_DHCP_OFFER == 1026
PW_DHCP_NAK == 1030
DHCP_MAGIC_VENDOR == 54
PW_DHCP_OPTION_82 == 82
PW_CLEARTEXT_PASSWORD == 1100
MAX_STRING_LEN == 254                \* sizeof(vp->vp_octets)

DHCP2ATTR(x) == DHCP_MAGIC_VENDOR * 65536 + x
IS_DHCP_ATTR(vp) == vp.attribute \div 65536 = DHCP_MAGIC_VENDOR
DHCP_BASE_ATTR(x) == x % 256
DHCP_UNPACK_OPTION1(x) == (x \div 256) % 256

INADDR_ANY == <<0, 0, 0, 0>>
INADDR_BROADCAST == <<255, 255, 255, 255>>

-----------------------------------------------------------------------------
(* Bytes *)

Zeros(n) == [i \in 1..n |-> 0]

\* the byte at C offset off of buffer d; past the received length the
\* buffer holds whatever the allocator left there
Rd(d, st, off) == IF off < Len(d) THEN d[off + 1] ELSE st

\* n bytes starting at C offset off
RdN(d, st, off, n) == [i \in 1..n |-> Rd(d, st, off + i - 1)]

\* bit mask m (a power of two) of byte or word b
BitSet(b, m) == (b \div m) % 2 = 1
OrBit(b, m) == IF BitSet(b, m) THEN b ELSE b + m

\* (p[0] << 8) | p[1], and ntohl of four bytes
BE16(s) == s[1] * 256 + s[2]
BE32(s) == ((s[1] * 256 + s[2]) * 256 + s[3]) * 256 + s[4]
ToBE16(v) == <<(v \div 256) % 256, v % 256>>
ToBE32(v) == <<(v \div 16777216) % 256, (v \div 65536) % 256,
               (v \div 256) % 256, v % 256>>

\* a uint16_t loaded from two bytes of memory in the build's byte order
Host16(s, e) == IF e = "big" THEN s[1] * 256 + s[2] ELSE s[2] * 256 + s[1]

\* the C string held in s: the bytes before the first NUL
RECURSIVE CStr(_)
CStr(s) == IF s = <<>> \/ Head(s) = 0 THEN <<>> ELSE <<Head(s)>> \o CStr(Tail(s))

\* s with the byte at C offset off replaced
Poke(s, off, b) == [s EXCEPT ![off + 1] = b]

-----------------------------------------------------------------------------
(* The dictionary service.  dict_attrbyvalue maps DHCP2ATTR(code) to a     *)
(* descriptor {attr, type, array}; codes outside DictCodes are absent.     *)
(* The entries are those the codec itself names (53, 57, 26, 61, 63, 82,   *)
(* 90, 256..269) and one option per descriptor type and array flavour.     *)

IntTypes == {"byte", "short", "integer", "date"}

DictCodes == {1, 6, 12, 25, 26, 51, 53, 55, 57, 60, 61, 63, 82, 90, 101}

DictType(code) ==
    CASE code \in {1, 6} -> "ipaddr"
      [] code \in {12, 60} -> "string"
      [] code \in {25, 26, 57} -> "short"
      [] code = 51 -> "integer"
      [] code \in {53, 55} -> "byte"
      [] code = 101 -> "date"
      [] OTHER -> "octets"

DictArray(code) == code \in {6, 25, 55}

dict_attrbyvalue(code) ==
    [attr |-> DHCP2ATTR(code), type |-> DictType(code), array |-> DictArray(code)]

\* the fourteen header pseudo-attributes, DHCP2ATTR(256 + i), in the order of
\* dhcp_header_names, with their widths and dictionary types
dhcp_header_sizes ==
    <<1, 1, 1, 1, 4, 2, 2, 4, 4, 4, 4, DHCP_CHADDR_LEN, DHCP_SNAME_LEN, DHCP_FILE_LEN>>

dhcp_header_types ==
    <<"byte", "byte", "byte", "byte", "integer", "short", "short",
      "ipaddr", "ipaddr", "ipaddr", "ipaddr", "octets", "string", "string">>

RECURSIVE HeaderOffset(_)
HeaderOffset(i) == IF i = 0 THEN 0 ELSE HeaderOffset(i - 1) + dhcp_header_sizes[i]

-----------------------------------------------------------------------------
(* Attribute pairs.  A VALUE_PAIR is [attribute, type, length, integer,    *)
(* octets]: integer is vp_integer / lvalue, octets is the byte view        *)
(* (vp_octets, vp_strvalue, vp_ether, and the four bytes of vp_ipaddr in   *)
(* network order).                                                         *)

VP(attribute, type, length, integer, octets) ==
    [attribute |-> attribute, type |-> type, length |-> length,
     integer |-> integer, octets |-> octets]

\* pairfind: the index of the first pair with the attribute, 0 when absent
RECURSIVE FindFrom(_, _, _)
FindFrom(vps, attr, k) ==
    IF k > Len(vps) THEN 0
    ELSE IF vps[k].attribute = attr THEN k
    ELSE FindFrom(vps, attr, k + 1)

pairfind(vps, attr) == FindFrom(vps, attr, 1)

\* pairdelete: the list without any pair of the attribute
pairdelete(vps, attr) == SelectSeq(vps, LAMBDA vp : vp.attribute # attr)

-----------------------------------------------------------------------------
(* fr_dhcp_recv: the checks between recvfrom and the returned packet.      *)
(* Each conjunct is one early return of the function, in its order.        *)

RecvAccepts(d) ==
    /\ Len(d) > 0
    /\ Len(d) >= MIN_PACKET_SIZE
    /\ d[1] = 1
    /\ d[2] = 1
    /\ d[3] = 6
    /\ SubSeq(d, 237, 240) = DHCP_OPTION_MAGIC_NUMBER
    /\ ~ (d[241] # 53 \/ d[242] # 1 \/ d[243] = 0 \/ d[243] >= 8)

\* packet->code of an accepted datagram
RecvCode(d) == PW_DHCP_OFFSET + d[243]

-----------------------------------------------------------------------------
(* fr_dhcp_decode: the header loop *)

\* the header loop without the test that drops a string field of length 0
HeaderPairKeepEmpty(d, st, i) ==
    LET p == HeaderOffset(i)
        size == dhcp_header_sizes[i + 1]
        type == IF i = 11 /\ Rd(d, st, 1) = 1 /\ Rd(d, st, 2) = 6
                THEN "ether" ELSE dhcp_header_types[i + 1]
        attr == DHCP2ATTR(256 + i)
    IN  CASE type = "byte" -> <<VP(attr, type, 1, Rd(d, st, p), <<>>)>>
          [] type = "short" -> <<VP(attr, type, 2, BE16(RdN(d, st, p, 2)), <<>>)>>
          [] type = "integer" -> <<VP(attr, type, 4, BE32(RdN(d, st, p, 4)), <<>>)>>
          [] type = "ipaddr" -> <<VP(attr, type, 4, 0, RdN(d, st, p, 4))>>
          [] type = "string" ->
                LET str == CStr(RdN(d, st, p, size))
                IN  <<VP(attr, type, Len(str), 0, str)>>
          [] type = "octets" ->
                <<VP(attr, type, Rd(d, st, 2), 0, RdN(d, st, p, Rd(d, st, 2)))>>
          [] type = "ether" -> <<VP(attr, type, 6, 0, RdN(d, st, p, 6))>>

\* the pair built for header field i (0..13), as a list of zero or one pair
HeaderPair(d, st, i) ==
    LET p == HeaderOffset(i)
        size == dhcp_header_sizes[i + 1]
        type == IF i = 11 /\ Rd(d, st, 1) = 1 /\ Rd(d, st, 2) = 6
                THEN "ether" ELSE dhcp_header_types[i + 1]
        attr == DHCP2ATTR(256 + i)
    IN  CASE type = "byte" -> <<VP(attr, type, 1, Rd(d, st, p), <<>>)>>
          [] type = "short" -> <<VP(attr, type, 2, BE16(RdN(d, st, p, 2)), <<>>)>>
          [] type = "integer" -> <<VP(attr, type, 4, BE32(RdN(d, st, p, 4)), <<>>)>>
          [] type = "ipaddr" -> <<VP(attr, type, 4, 0, RdN(d, st, p, 4))>>
          [] type = "string" ->
                LET str == CStr(RdN(d, st, p, size))
                IN  IF Len(str) = 0 THEN <<>>
                    ELSE <<VP(attr, type, Len(str), 0, str)>>
          [] type = "octets" ->
                <<VP(attr, type, Rd(d, st, 2), 0, RdN(d, st, p, Rd(d, st, 2)))>>
          [] type = "ether" -> <<VP(attr, type, 6, 0, RdN(d, st, p, 6))>>

\* the header loop run over the first eleven fields only
RECURSIVE HeaderPairsElevenFields(_, _, _)
HeaderPairsElevenFields(d, st, i) ==
    IF i >= 11 THEN <<>>
    ELSE HeaderPair(d, st, i) \o HeaderPairsElevenFields(d, st, i + 1)

\* the pairs of header fields i..13
RECURSIVE HeaderPairs(_, _, _)
HeaderPairs(d, st, i) ==
    IF i = 14 THEN <<>> ELSE HeaderPair(d, st, i) \o HeaderPairs(d, st, i + 1)

-----------------------------------------------------------------------------
(* fr_dhcp_decode: the option loop *)

\* How one recognized option is split: "raw" (goto raw), or n typed entries
\* of alen bytes each.
OptionShape(da, len) ==
    IF da.array
    THEN CASE da.type = "byte" -> [raw |-> FALSE, n |-> len, alen |-> 1]
           [] da.type = "short" ->
                IF len % 2 # 0 THEN [raw |-> TRUE, n |-> 1, alen |-> len]
                ELSE [raw |-> FALSE, n |-> len \div 2, alen |-> 2]
           [] da.type \in {"ipaddr", "integer", "date"} ->
                IF len % 4 # 0 THEN [raw |-> TRUE, n |-> 1, alen |-> len]
                ELSE [raw |-> FALSE, n |-> len \div 4, alen |-> 4]
           [] OTHER -> [raw |-> FALSE, n |-> 1, alen |-> len]
    ELSE CASE da.type = "byte" -> [raw |-> len # 1, n |-> 1, alen |-> len]
           [] da.type = "short" -> [raw |-> len # 2, n |-> 1, alen |-> len]
           [] da.type \in {"ipaddr", "integer", "date"} ->
                [raw |-> len # 4, n |-> 1, alen |-> len]
           [] OTHER -> [raw |-> FALSE, n |-> 1, alen |-> len]

\* vp_integer of a pair whose type is not an integer type is whatever the
\* VALUE_PAIR layout makes of it; raw stands for that value.  Only the
\* pairs the codec later reads as integers (26 and 57) carry it.
RawInteger(da, raw) ==
    IF da.attr \in {DHCP2ATTR(26), DHCP2ATTR(57)} THEN raw ELSE 0

\* the pair made at "raw:": OCTETS, alen bytes
RawEntry(d, st, da, p, alen, raw) ==
    VP(da.attr, "octets", alen, RawInteger(da, raw), RdN(d, st, p, alen))

\* TRUE when the per-entry switch reaches "default:", which frees the pair
\* and then stores through the freed (NULL) pointer at vp->length
EntryIsNull(da, d, st, p, alen, n) ==
    /\ ~ (da.attr = DHCP2ATTR(61) /\ ~ da.array /\ alen = 7
          /\ Rd(d, st, p) = 1 /\ n = 1)
    /\ da.type \notin {"byte", "short", "integer", "ipaddr", "string", "octets"}

\* the pair one typed entry yields
TypedEntry(d, st, da, p, alen, n, raw) ==
    IF da.attr = DHCP2ATTR(61) /\ ~ da.array /\ alen = 7
       /\ Rd(d, st, p) = 1 /\ n = 1
    THEN VP(da.attr, "ether", alen, 0, RdN(d, st, p + 1, 6))
    ELSE CASE da.type = "byte" -> VP(da.attr, da.type, alen, Rd(d, st, p), <<>>)
           [] da.type = "short" ->
                VP(da.attr, da.type, alen, BE16(RdN(d, st, p, 2)), <<>>)
           [] da.type = "integer" ->
                VP(da.attr, da.type, alen, BE32(RdN(d, st, p, 4)), <<>>)
           [] da.type = "ipaddr" -> VP(da.attr, da.type, alen, 0, RdN(d, st, p, 4))
           [] OTHER ->
                VP(da.attr, da.type, alen, RawInteger(da, raw), RdN(d, st, p, alen))

RECURSIVE TypedEntries(_, _, _, _, _, _, _, _)
TypedEntries(d, st, da, p, alen, n, i, raw) ==
    IF i >= n THEN <<>>
    ELSE <<TypedEntry(d, st, da, p, alen, n, raw)>>
         \o TypedEntries(d, st, da, p + alen, alen, n, i + 1, raw)

\* the loop leaving at a skipped option instead of continuing after it
RECURSIVE OptionWalkStopAtSkipped(_, _, _, _, _, _)
OptionWalkStopAtSkipped(d, st, off, total, acc, raw) ==
    IF total <= 0 THEN [vps |-> acc, null |-> FALSE]
    ELSE IF Rd(d, st, off) = 0 \/ Rd(d, st, off) = 255
    THEN [vps |-> acc, null |-> FALSE]
    ELSE LET code == Rd(d, st, off)
             len == Rd(d, st, off + 1)
         IN  IF len >= 253 \/ code \notin DictCodes
             THEN [vps |-> acc, null |-> FALSE]
             ELSE LET da == dict_attrbyvalue(code)
                      sh == OptionShape(da, len)
                      p == off + 2
                  IN  IF sh.raw
                      THEN OptionWalkStopAtSkipped(d, st, p + sh.alen, total - 2 - sh.alen,
                               Append(acc, RawEntry(d, st, da, p, sh.alen, raw)),
                               raw)
                      ELSE IF sh.n > 0 /\ EntryIsNull(da, d, st, p, sh.alen, sh.n)
                      THEN [vps |-> acc, null |-> TRUE]
                      ELSE OptionWalkStopAtSkipped(d, st, p + sh.alen * sh.n,
                               total - 2 - sh.alen * sh.n,
                               acc \o TypedEntries(d, st, da, p, sh.alen, sh.n, 0, raw),
                               raw)

\* The while (total > 0) loop from offset off with total bytes left and the
\* pairs decoded so far: the list at loop exit and whether a NULL pair was
\* dereferenced on the way.
RECURSIVE OptionWalk(_, _, _, _, _, _)
OptionWalk(d, st, off, total, acc, raw) ==
    IF total <= 0 THEN [vps |-> acc, null |-> FALSE]
    ELSE IF Rd(d, st, off) = 0 \/ Rd(d, st, off) = 255
    THEN [vps |-> acc, null |-> FALSE]
    ELSE LET code == Rd(d, st, off)
             len == Rd(d, st, off + 1)
         IN  IF len >= 253 \/ code \notin DictCodes
             THEN OptionWalk(d, st, off + len + 2, total - 2 - len, acc, raw)
             ELSE LET da == dict_attrbyvalue(code)
                      sh == OptionShape(da, len)
                      p == off + 2
                  IN  IF sh.raw
                      THEN OptionWalk(d, st, p + sh.alen, total - 2 - sh.alen,
                               Append(acc, RawEntry(d, st, da, p, sh.alen, raw)),
                               raw)
                      ELSE IF sh.n > 0 /\ EntryIsNull(da, d, st, p, sh.alen, sh.n)
                      THEN [vps |-> acc, null |-> TRUE]
                      ELSE OptionWalk(d, st, p + sh.alen * sh.n,
                               total - 2 - sh.alen * sh.n,
                               acc \o TypedEntries(d, st, da, p, sh.alen, sh.n, 0, raw),
                               raw)

\* The highest C offset of packet->data the while (total > 0) loop loads
\* from, walking from offset off with total bytes left (-1: no load).  An
\* iteration loads *p, then p[1], then the alen bytes of each entry it
\* builds; the entry whose type reaches "default:" loads nothing.
RECURSIVE OptionReads(_, _, _, _)
OptionReads(d, st, off, total) ==
    IF total <= 0 THEN -1
    ELSE IF Rd(d, st, off) = 0 \/ Rd(d, st, off) = 255 THEN off
    ELSE LET code == Rd(d, st, off)
             len == Rd(d, st, off + 1)
             Max(a, b) == IF a >= b THEN a ELSE b
         IN  IF len >= 253 \/ code \notin DictCodes
             THEN Max(off + 1, OptionReads(d, st, off + len + 2, total - 2 - len))
             ELSE LET da == dict_attrbyvalue(code)
                      sh == OptionShape(da, len)
                      p == off + 2
                      bytes == IF sh.raw THEN sh.alen ELSE sh.alen * sh.n
                  IN  IF ~ sh.raw /\ sh.n > 0 /\ EntryIsNull(da, d, st, p, sh.alen, sh.n)
                      THEN off + 1
                      ELSE Max(off + 1 + bytes,
                               OptionReads(d, st, p + bytes, total - 2 - bytes))

\* The values total has each time the while (total > 0) test is made,
\* walking from offset off, up to the test or break that leaves the loop
\* (or the entry at which the NULL pair is stored through).
RECURSIVE WalkTotals(_, _, _, _)
WalkTotals(d, st, off, total) ==
    IF total <= 0 THEN <<total>>
    ELSE IF Rd(d, st, off) = 0 \/ Rd(d, st, off) = 255 THEN <<total>>
    ELSE LET code == Rd(d, st, off)
             len == Rd(d, st, off + 1)
         IN  IF len >= 253 \/ code \notin DictCodes
             THEN <<total>> \o WalkTotals(d, st, off + len + 2, total - 2 - len)
             ELSE LET da == dict_attrbyvalue(code)
                      sh == OptionShape(da, len)
                      bytes == IF sh.raw THEN sh.alen ELSE sh.alen * sh.n
                  IN  IF ~ sh.raw /\ sh.n > 0
                         /\ EntryIsNull(da, d, st, off + 2, sh.alen, sh.n)
                      THEN <<total>>
                      ELSE <<total>>
                           \o WalkTotals(d, st, off + 2 + bytes, total - 2 - bytes)

-----------------------------------------------------------------------------
(* fr_dhcp_decode: the post-decode policy *)

MSFT98 == <<77, 83, 70, 84, 32, 57, 56>>          \* "MSFT 98"

\* the condition under which the broadcast flag is forced
BroadcastFixup(d, st, head) ==
    /\ RdN(d, st, 24, 4) = INADDR_ANY
    /\ pairfind(head, DHCP2ATTR(256)) # 0
    /\ head[pairfind(head, DHCP2ATTR(256))].integer = 3
    /\ pairfind(head, DHCP2ATTR(63)) # 0
    /\ CStr(head[pairfind(head, DHCP2ATTR(63))].octets) = MSFT98

\* vp->lvalue |= 0x8000 on the flags pair, when there is one
SetBroadcast(head) ==
    LET k == pairfind(head, DHCP2ATTR(262))
    IN  IF k = 0 THEN head
        ELSE [head EXCEPT ![k].integer = OrBit(head[k].integer, 32768)]

\* the Interface-MTU check: TRUE when decode gives up
MtuTooSmall(vps) ==
    LET mtu == pairfind(vps, DHCP2ATTR(26))
    IN  mtu # 0 /\ vps[mtu].integer < DEFAULT_PACKET_SIZE

\* the two coercions of Maximum-DHCP-Message-Size
ClampMaxms(vps) ==
    LET maxms == pairfind(vps, DHCP2ATTR(57))
        mtu == pairfind(vps, DHCP2ATTR(26))
        v1 == IF maxms # 0 /\ vps[maxms].integer < DEFAULT_PACKET_SIZE
              THEN [vps EXCEPT ![maxms].integer = DEFAULT_PACKET_SIZE]
              ELSE vps
    IN  IF maxms # 0 /\ mtu # 0 /\ v1[maxms].integer > v1[mtu].integer
        THEN [v1 EXCEPT ![maxms].integer = v1[mtu].integer]
        ELSE v1

\* fr_dhcp_decode on a packet whose data is d and whose vps is old:
\* rc is "ok" (0), "fail" (-1) or "crash" (the NULL store), with the
\* packet's vps and data as the call leaves them.
fr_dhcp_decode(d, st, old, raw) ==
    IF Rd(d, st, 1) # 1
    THEN [rc |-> "fail", vps |-> old, data |-> d]
    ELSE LET walk == OptionWalk(d, st, 240, Len(d) - 240, HeaderPairs(d, st, 0), raw)
         IN  IF walk.null
             THEN [rc |-> "crash", vps |-> old, data |-> d]
             ELSE LET fix == BroadcastFixup(d, st, walk.vps)
                      head == IF fix THEN SetBroadcast(walk.vps) ELSE walk.vps
                      data == IF fix THEN Poke(d, 10, OrBit(d[11], 128)) ELSE d
                  IN  IF MtuTooSmall(head)
                      THEN [rc |-> "fail", vps |-> head, data |-> data]
                      ELSE [rc |-> "ok", vps |-> ClampMaxms(head), data |-> data]

-----------------------------------------------------------------------------
(* attr_cmp and the qsort of the reply's pairs *)

\* attr_cmp(a, b): negative, zero or positive
attr_cmp(a, b) ==
    IF a.attribute = DHCP2ATTR(53) /\ b.attribute # DHCP2ATTR(53) THEN -1
    ELSE IF a.attribute = DHCP2ATTR(82) /\ b.attribute # DHCP2ATTR(82) THEN 1
    ELSE a.attribute - b.attribute

\* qsort places a before b only on the strength of a comparison: one of
\* the two calls it can make for the pair says so.  Where attr_cmp is a
\* consistent order this is "a <= b"; equal pairs may end in either order
\* (qsort is not stable), and so may pairs on which attr_cmp contradicts
\* itself.
MayPrecede(a, b) == attr_cmp(a, b) <= 0 \/ attr_cmp(b, a) >= 0

\* the ways of inserting x into the arranged sequence r
Inserts(x, r) ==
    { SubSeq(r, 1, i) \o <<x>> \o SubSeq(r, i + 1, Len(r)) :
        i \in { j \in 0..Len(r) :
                  /\ \A k \in 1..j : MayPrecede(r[k], x)
                  /\ \A k \in (j + 1)..Len(r) : MayPrecede(x, r[k]) } }

\* every arrangement qsort may leave the array in
RECURSIVE QsortOutcomes(_)
QsortOutcomes(list) ==
    IF list = <<>> THEN { <<>> }
    ELSE UNION { Inserts(Head(list), r) : r \in QsortOutcomes(Tail(list)) }

-----------------------------------------------------------------------------
(* fr_dhcp_vp2attr *)

\* the first n bytes of the pair's value buffer (zero beyond what was set)
ValueBytes(vp, n) ==
    [i \in 1..n |-> IF i <= Len(vp.octets) THEN vp.octets[i] ELSE 0]

\* the bytes fr_dhcp_vp2attr stores at p; their number is its result
fr_dhcp_vp2attr(vp) ==
    CASE vp.type = "byte" -> <<vp.integer % 256>>
      [] vp.type = "short" -> ToBE16(vp.integer)
      [] vp.type = "integer" -> ToBE32(vp.integer)
      [] vp.type = "ipaddr" -> ValueBytes(vp, 4)
      [] vp.type = "ether" -> ValueBytes(vp, 6)
      [] vp.type \in {"string", "octets"} -> ValueBytes(vp, vp.length)
      [] OTHER -> <<>>

-----------------------------------------------------------------------------
(* fr_dhcp_encode: the maximum message size *)

\* mms as the function computes it from the original's list; nothing
\* after this computation reads it
MaximumMessageSize(orig_vps) ==
    LET k == pairfind(orig_vps, DHCP2ATTR(57))
    IN  IF k # 0 /\ orig_vps[k].integer > DEFAULT_PACKET_SIZE
        THEN (IF orig_vps[k].integer > MAX_PACKET_SIZE
              THEN MAX_PACKET_SIZE ELSE orig_vps[k].integer)
        ELSE DEFAULT_PACKET_SIZE

-----------------------------------------------------------------------------
(* fr_dhcp_encode: the Authentication option (RFC 3118) *)

\* the pair 90 after the fix-ups; ntp is the 8-byte timestamp of "now",
\* pass the index of the Cleartext-Password pair in vps or 0
AuthPair(vp, vps, ntp) ==
    LET b0 == ValueBytes(vp, MAX_STRING_LEN)
        l1 == IF vp.length < 2 THEN 2 ELSE vp.length
        stamp == l1 < 3
        b1 == IF stamp
              THEN [i \in 1..MAX_STRING_LEN |->
                       IF i = 3 THEN 0
                       ELSE IF i \in 4..11 THEN ntp[i - 3] ELSE b0[i]]
              ELSE b0
        l2 == IF stamp THEN 3 + 8 ELSE l1
        pass == pairfind(vps, PW_CLEARTEXT_PASSWORD)
    IN  IF b1[1] # 0
        THEN [vp EXCEPT !.length = l2, !.octets = SubSeq(b1, 1, l2)]
        ELSE IF pass # 0
        THEN LET plen == vps[pass].length
                 length == IF plen + 11 > MAX_STRING_LEN
                           THEN plen - ((plen + 11) - MAX_STRING_LEN) ELSE plen
                 pw == ValueBytes(vps[pass], length)
                 b2 == [i \in 1..MAX_STRING_LEN |->
                          IF i = 2 THEN 0
                          ELSE IF i \in 12..(11 + length) THEN pw[i - 11] ELSE b1[i]]
             IN  [vp EXCEPT !.length = length + 11,
                            !.octets = SubSeq(b2, 1, length + 11)]
        ELSE LET b2 == [b1 EXCEPT ![2] = 0]
             IN  [vp EXCEPT !.length = 11 + 8, !.octets = SubSeq(b2, 1, 11 + 8)]

AuthOption(vps, ntp) ==
    LET k == pairfind(vps, DHCP2ATTR(90))
    IN  IF k = 0 THEN vps ELSE [vps EXCEPT ![k] = AuthPair(vps[k], vps, ntp)]

-----------------------------------------------------------------------------
(* fr_dhcp_encode: the fixed header and the magic cookie, bytes 0..239 *)

YourIP(vps) ==
    LET k == pairfind(vps, DHCP2ATTR(264))
    IN  IF k = 0 THEN INADDR_ANY ELSE ValueBytes(vps[k], 4)

\* the header with the gateway address copied from the request
EncodeHeaderKeepGiaddr(orig, vps) ==
    <<2, 1, orig[3], 0>>
    \o SubSeq(orig, 5, 8)
    \o Zeros(2)
    \o SubSeq(orig, 11, 16)
    \o YourIP(vps)
    \o Zeros(4)
    \o SubSeq(orig, 25, 28)
    \o SubSeq(orig, 29, 28 + DHCP_CHADDR_LEN)
    \o Zeros(192)
    \o DHCP_OPTION_MAGIC_NUMBER

\* the 240 bytes fr_dhcp_encode writes before the options
EncodeHeader(orig, vps) ==
    <<2, 1, orig[3], 0>>
    \o SubSeq(orig, 5, 8)
    \o Zeros(2)
    \o SubSeq(orig, 11, 16)
    \o YourIP(vps)
    \o Zeros(4)
    \o Zeros(4)
    \o SubSeq(orig, 29, 28 + DHCP_CHADDR_LEN)
    \o Zeros(192)
    \o DHCP_OPTION_MAGIC_NUMBER

-----------------------------------------------------------------------------
(* fr_dhcp_encode: packing the options.  The buffer buf holds every byte   *)
(* written so far (its length is the highest offset written), p is the     *)
(* write pointer as a C offset.                                            *)

\* store bytes at offset p (p never exceeds the bytes already written)
WriteAt(buf, p, bytes) ==
    SubSeq(buf, 1, p) \o bytes
    \o (IF Len(buf) > p + Len(bytes) THEN SubSeq(buf, p + Len(bytes) + 1, Len(buf))
        ELSE <<>>)

\* pairs the pack loop passes over ("goto next")
NotPacked(vp) ==
    \/ ~ IS_DHCP_ATTR(vp)
    \/ /\ vp.attribute % 65536 > 255
       /\ DHCP_BASE_ATTR(vp.attribute) # PW_DHCP_OPTION_82

\* num_entries: the pair at k and the pairs after it with its attribute
RECURSIVE RunLength(_, _)
RunLength(vps, k) ==
    IF k < Len(vps) /\ vps[k + 1].attribute = vps[k].attribute
    THEN 1 + RunLength(vps, k + 1) ELSE 1

\* the "For client-identifier" rewrite of the pair that starts a run
ClientIdRewrite(vp, num_entries) ==
    IF vp.type = "ether" /\ vp.length = 6 /\ num_entries = 1
    THEN [vp EXCEPT !.type = "octets", !.octets = <<1>> \o ValueBytes(vp, 6)]
    ELSE vp

\* the loop over num_entries: k the current pair, plen the value of *plength
RECURSIVE PackEntries(_, _, _, _, _, _, _)
PackEntries(vps, k, i, num_entries, buf, p, plen) ==
    IF i >= num_entries THEN [k |-> k, buf |-> buf, p |-> p, plen |-> plen]
    ELSE LET bytes == fr_dhcp_vp2attr(vps[k])
             length == Len(bytes)
             buf1 == WriteAt(buf, p, bytes)
         IN  IF length > 255 \/ plen + length > 255
             THEN [k |-> k, buf |-> buf1, p |-> p, plen |-> plen]
             ELSE PackEntries(vps,
                      IF k < Len(vps) /\ vps[k + 1].attribute = vps[k].attribute
                      THEN k + 1 ELSE k,
                      i + 1, num_entries, buf1, p + length, plen + length)

\* the while (vp) loop from pair k on
RECURSIVE PackOptions(_, _, _, _)
PackOptions(vps, k, buf, p) ==
    IF k > Len(vps) THEN [vps |-> vps, buf |-> buf, p |-> p]
    ELSE IF NotPacked(vps[k]) THEN PackOptions(vps, k + 1, buf, p)
    ELSE LET num_entries == RunLength(vps, k)
             vps1 == [vps EXCEPT ![k] = ClientIdRewrite(vps[k], num_entries)]
             relay == DHCP_BASE_ATTR(vps1[k].attribute) = PW_DHCP_OPTION_82
             plength == p + 1
             buf1 == WriteAt(buf, p,
                        IF relay
                        THEN <<vps1[k].attribute % 256, 2,
                               DHCP_UNPACK_OPTION1(vps1[k].attribute), 0>>
                        ELSE <<vps1[k].attribute % 256, 0>>)
             r == PackEntries(vps1, k, 0, num_entries, buf1,
                              IF relay THEN p + 4 ELSE p + 2,
                              IF relay THEN 2 ELSE 0)
             buf2 == Poke(r.buf, plength, r.plen)
             buf3 == IF relay THEN Poke(buf2, plength + 2, r.plen - 2) ELSE buf2
         IN  PackOptions(vps1, r.k + 1, buf3, r.p)

-----------------------------------------------------------------------------
(* fr_dhcp_encode: the reply's destination *)

ReplyDestination(orig, code, dst, e) ==
    LET giaddr == SubSeq(orig, 25, 28)
        ciaddr == SubSeq(orig, 13, 16)
        yiaddr == SubSeq(orig, 17, 20)
        flags == Host16(SubSeq(orig, 11, 12), e)
    IN  IF giaddr # INADDR_ANY THEN giaddr
        ELSE IF code = PW_DHCP_NAK THEN INADDR_BROADCAST
        ELSE IF ciaddr # INADDR_ANY THEN ciaddr
        ELSE IF BitSet(flags, 32768) THEN INADDR_BROADCAST
        ELSE IF dst = INADDR_ANY THEN INADDR_BROADCAST
        ELSE yiaddr

-----------------------------------------------------------------------------
(* fr_dhcp_encode as a whole, for a reply packet without data yet and an   *)
(* original request whose data is orig: sorted is the arrangement qsort    *)
(* left the pairs in.                                                      *)

\* packet->code as the function uses it
EncodeCode(code) == IF code = 0 THEN PW_DHCP_NAK ELSE code

\* the list handed to qsort: after the Authentication fix-up and pairdelete
PairsToSort(vps, ntp) == pairdelete(AuthOption(vps, ntp), DHCP2ATTR(53))

\* the sort runs only when there is more than one pair
SortOutcomes(list) == IF Len(list) > 1 THEN QsortOutcomes(list) ELSE { list }

\* PadReply with the memset started at the highest byte written instead of
\* at data_len
PadReplyFromHighWater(buf, dhcp_size) ==
    IF dhcp_size < DEFAULT_PACKET_SIZE /\ Len(buf) < DEFAULT_PACKET_SIZE
    THEN buf \o Zeros(DEFAULT_PACKET_SIZE - Len(buf))
    ELSE buf

\* zero padding up to DEFAULT_PACKET_SIZE
PadReply(buf, dhcp_size) ==
    IF dhcp_size < DEFAULT_PACKET_SIZE
    THEN WriteAt(buf, dhcp_size, Zeros(DEFAULT_PACKET_SIZE - dhcp_size))
    ELSE buf

\* vps is packet->vps at entry, ntp the current time, sorted one of
\* SortOutcomes(PairsToSort(vps, ntp)), dst the destination the caller left.
\* overrun tells whether a byte was stored at or past offset MAX_PACKET_SIZE
\* of the malloc'd buffer.
fr_dhcp_encode(code, vps, ntp, sorted, dst, orig, e) ==
    LET c == EncodeCode(code)
        hdr == EncodeHeader(orig, AuthOption(vps, ntp))
               \o <<53, 1, (c - PW_DHCP_OFFSET) % 256>>
        packed == PackOptions(sorted, 1, hdr, 243)
        ended == WriteAt(packed.buf, packed.p, <<255, 0>>)
        dhcp_size == packed.p + 2
    IN  [code |-> c,
         vps |-> packed.vps,
         data |-> PadReply(ended, dhcp_size),
         dhcp_size |-> dhcp_size,
         data_len |-> IF dhcp_size < DEFAULT_PACKET_SIZE
                      THEN DEFAULT_PACKET_SIZE ELSE dhcp_size,
         dst |-> ReplyDestination(orig, c, dst, e),
         overrun |-> Len(ended) > MAX_PACKET_SIZE]

-----------------------------------------------------------------------------
(* The datagrams, stale bytes and host choices explored *)

MaxHostVps == 3          \* longest attribute list the host builds itself
MaxPadOptions == 1       \* pad bytes put in front of the options

Opt(code, val) == <<code, Len(val)>> \o val
Fill(n, b) == [i \in 1..n |-> b]

ClientMac == <<170, 187, 204, 221, 238, 255>>
RelayIP == <<10, 0, 0, 1>>
ClientIP == <<192, 0, 2, 5>>
OfferedIP == <<192, 0, 2, 10>>
OtherIP == <<198, 51, 100, 7>>

\* a datagram with header fields h and option bytes opts
Datagram(h, opts) ==
    <<h.op, h.htype, h.hlen, 0>>
    \o <<18, 52, 86, 120>>
    \o <<0, 0>>
    \o h.flags
    \o h.ciaddr \o h.yiaddr \o INADDR_ANY \o h.giaddr
    \o ClientMac \o Zeros(DHCP_CHADDR_LEN - 6)
    \o h.sname \o Zeros(DHCP_SNAME_LEN - Len(h.sname))
    \o Zeros(DHCP_FILE_LEN)
    \o h.cookie
    \o opts

BaseHeader ==
    [op |-> 1, htype |-> 1, hlen |-> 6, flags |-> <<0, 0>>,
     ciaddr |-> INADDR_ANY, yiaddr |-> INADDR_ANY, giaddr |-> INADDR_ANY,
     sname |-> <<>>, cookie |-> DHCP_OPTION_MAGIC_NUMBER]

\* the minimal request: DHCPDISCOVER and the end marker, 244 bytes
CanonicalWire == Datagram(BaseHeader, <<53, 1, 1, 255>>)

\* datagrams for the receive checks
RecvHeaders ==
    { BaseHeader, [BaseHeader EXCEPT !.op = 2], [BaseHeader EXCEPT !.htype = 6],
      [BaseHeader EXCEPT !.hlen = 16],
      [BaseHeader EXCEPT !.cookie = <<99, 130, 83, 98>>] }

RecvOptions ==
    { <<53, 1, v, 255>> : v \in {0, 1, 2, 3, 7, 8, 9} }
    \cup { <<53, 2, 1, 0, 255>>, <<53, 1, 1>>, <<12, 1, 65, 255>>,
           <<12, 1, 65, 53, 1, 1, 255>>, <<12, 1, 65, 53, 1, 8, 255>> }
    \cup { Fill(n, 0) \o <<53, 1, 1, 255>> : n \in 1..MaxPadOptions }

RecvWires ==
    { Datagram(h, <<53, 1, 1, 255>>) : h \in RecvHeaders }
    \cup { Datagram(BaseHeader, o) : o \in RecvOptions }
    \cup { <<>>, SubSeq(CanonicalWire, 1, 100) }

\* option bodies for the decode walk, placed after option 53
DecodeBodies ==
    { <<>>,
      Opt(6, <<8, 8, 8, 8, 1, 1, 1, 1>>),            \* IPADDR array, two entries
      Opt(6, <<8, 8, 8, 8, 1, 1>>),                  \* not a multiple of 4
      Opt(6, <<>>),                                  \* array of no entry
      Opt(1, <<255, 255, 255, 0>>),                  \* IPADDR
      Opt(1, <<255, 255, 255>>),                     \* IPADDR of 3 bytes
      Opt(12, <<104, 111, 115, 116>>),               \* STRING
      Opt(25, <<2, 64, 5, 220>>),                    \* SHORT array
      Opt(25, <<2, 64, 5>>),                         \* SHORT array, odd
      Opt(51, <<0, 1, 81, 128>>),                    \* INTEGER
      Opt(55, <<1, 3, 6>>),                          \* BYTE array
      Opt(53, <<1, 2>>),                             \* BYTE of 2 bytes
      Opt(61, <<1>> \o ClientMac),                   \* Client-Identifier
      Opt(61, <<0, 99, 105, 100>>),
      Opt(82, <<1, 2, 170, 187>>),                   \* Relay-Agent
      Opt(101, <<0, 0, 0, 9>>),                      \* DATE
      Opt(200, <<7, 7>>),                            \* not in the dictionary
      Opt(200, <<7, 7>>) \o Opt(12, <<104>>),
      <<12, 253>> \o Fill(253, 65) \o Opt(51, <<0, 0, 0, 60>>),
      Opt(12, <<104>>) \o Opt(200, <<7>>) \o Opt(51, <<0, 0, 0, 60>>),
      <<0>> \o Opt(12, <<104>>),                     \* pad, then an option
      Opt(12, <<104>>) \o Opt(6, <<8, 8, 8, 8>>) \o Opt(12, <<105>>) }

DecodeHeaders == { BaseHeader, [BaseHeader EXCEPT !.sname = <<115, 114, 118>>] }

DecodeWires ==
    { Datagram(h, <<53, 1, 1>> \o b \o <<255>>) : h \in DecodeHeaders, b \in DecodeBodies }

\* datagrams whose last option runs past the end of the datagram
TruncatedWires ==
    { Datagram(BaseHeader, <<53, 1, 1>> \o b) :
        b \in { <<12, 4, 104>>, <<12>>, <<6, 4>>, <<200, 9, 1>> } }

\* datagrams for the broadcast fix-up
MsftWires ==
    { Datagram([BaseHeader EXCEPT !.giaddr = g], <<53, 1, t>> \o b \o <<255>>) :
        g \in {INADDR_ANY, RelayIP}, t \in {1, 3},
        b \in { Opt(60, MSFT98), Opt(63, MSFT98), Opt(60, <<77, 83, 70, 84>>) } }

\* datagrams for the negotiation clamp
SizeOption(code, v) == IF v = 0 THEN <<>> ELSE Opt(code, ToBE16(v))

MtuWires ==
    { Datagram(BaseHeader,
               <<53, 1, 1>> \o SizeOption(26, t) \o SizeOption(57, m) \o <<255>>) :
        t \in {0, 400, 576, 1000}, m \in {0, 400, 600, 1500} }
    \cup { Datagram(BaseHeader, <<53, 1, 1>> \o b \o <<255>>) :
             b \in { Opt(57, ToBE16(1500)) \o Opt(57, ToBE16(400)),
                     Opt(26, ToBE16(1000)) \o Opt(26, ToBE16(400)) } }

\* datagrams whose size options have the wrong length and decode as raw
RawSizeWires ==
    { Datagram(BaseHeader, <<53, 1, 1>> \o b \o <<255>>) :
        b \in { Opt(26, <<200>>), Opt(57, <<200>>),
                Opt(57, <<1, 2, 3>>) \o Opt(26, ToBE16(1000)) } }

\* datagrams for the reply's destination
RouteWires ==
    { Datagram([BaseHeader EXCEPT !.giaddr = g, !.ciaddr = c, !.yiaddr = y, !.flags = f],
               <<53, 1, 1, 255>>) :
        g \in {INADDR_ANY, RelayIP}, c \in {INADDR_ANY, ClientIP},
        y \in {INADDR_ANY, OtherIP}, f \in {<<0, 0>>, <<128, 0>>, <<0, 128>>} }

\* a relayed request with every header field set: hops 3, secs 7, server
\* address, gateway address, server host name and boot file name
RelayedWire ==
    LET d == Datagram([BaseHeader EXCEPT !.giaddr = RelayIP, !.ciaddr = ClientIP,
                                         !.yiaddr = OtherIP, !.flags = <<128, 0>>,
                                         !.sname = <<115, 114, 118>>],
                      <<53, 1, 1, 255>>)
    IN  [d EXCEPT ![4] = 3, ![10] = 7, ![21] = 192, ![24] = 1, ![109] = 98, ![110] = 111]

Wires ==
    RecvWires \cup DecodeWires \cup MsftWires \cup MtuWires \cup RouteWires
    \cup {RelayedWire}

StaleBytes == {0, 255, 12}
RawInts == {0, 1000, 70000}
Endians == {"little", "big"}
NtpStamp == <<131, 170, 126, 128, 0, 0, 0, 0>>
ReplyCodes == {0, PW_DHCP_OFFER, PW_DHCP_NAK}
ReplyDsts == {INADDR_ANY, OtherIP}

\* the pairs the host builds lists from
Password == VP(PW_CLEARTEXT_PASSWORD, "string", 250, 0, Fill(250, 112))

HostPairs ==
    { VP(DHCP2ATTR(6), "ipaddr", 4, 0, <<8, 8, 8, 8>>),
      VP(DHCP2ATTR(6), "ipaddr", 4, 0, <<1, 1, 1, 1>>),
      VP(DHCP2ATTR(82), "octets", 4, 0, <<1, 2, 170, 187>>),
      VP(DHCP2ATTR(90), "octets", 1, 0, <<0>>),
      VP(DHCP2ATTR(61), "octets", 127, 0, Fill(127, 7)),
      VP(DHCP2ATTR(264), "ipaddr", 4, 0, OfferedIP),
      Password }

RECURSIVE ListsUpTo(_)
ListsUpTo(n) ==
    IF n = 0 THEN { <<>> }
    ELSE LET shorter == ListsUpTo(n - 1)
         IN  shorter \cup { Append(l, vp) : l \in shorter, vp \in HostPairs }

HostLists == ListsUpTo(MaxHostVps)

\* long lists: n options of BulkLen bytes each under different codes, and
\* runs of one code whose values do not fit one TLV
MaxBulkVps == 5
BulkLen == 250
BulkCodes == <<12, 43, 60, 61, 66, 67, 77>>

BulkPair(code, len, b) == VP(DHCP2ATTR(code), "octets", len, 0, Fill(len, b))

BulkLists ==
    { [i \in 1..n |-> BulkPair(BulkCodes[i], BulkLen, i)] : n \in 4..MaxBulkVps }
    \cup { <<BulkPair(61, 200, 1), BulkPair(61, 200, 2), BulkPair(61, 200, 3)>>,
           <<BulkPair(61, 200, 1), BulkPair(61, 200, 2), BulkPair(77, 3, 9)>>,
           <<BulkPair(61, 127, 1), BulkPair(61, 127, 2), BulkPair(61, 127, 3),
             BulkPair(61, 127, 4)>>,
           <<BulkPair(61, 100, 1), BulkPair(61, 100, 2), BulkPair(61, 100, 3)>> }

\* the xid fr_rand() gives a packet sent without an original
XidOfClient == <<222, 173, 190, 239>>

-----------------------------------------------------------------------------
(* The exchange *)

NoData == <<>>

Init ==
    /\ endian \in Endians
    /\ \/ wire \in Wires /\ stale = 0 /\ rawint = 0
       \/ wire \in TruncatedWires /\ stale \in StaleBytes /\ rawint = 0
       \/ wire \in RawSizeWires /\ stale = 0 /\ rawint \in RawInts
    /\ pc = "recv"
    /\ req_data = NoData
    /\ req_code = 0
    /\ req_vps = <<>>
    /\ rc_decode = "none"
    /\ rep_from = "none"
    /\ rep_code = 0
    /\ rep_vps = <<>>
    /\ rep_dst = INADDR_ANY
    /\ rep_data = NoData
    /\ rep_len = 0
    /\ rep_size = 0
    /\ rc_encode = "none"
    /\ null_reads = 0
    /\ rt_vps = <<>>
    /\ rc_redecode = "none"

\* fr_dhcp_recv returns a packet
RecvPacket ==
    /\ pc = "recv"
    /\ RecvAccepts(wire)
    /\ req_data' = wire
    /\ req_code' = RecvCode(wire)
    /\ pc' = "decode"
    /\ UNCHANGED <<endian, wire, stale, rawint, req_vps, rc_decode, rep_from, rep_code,
                   rep_vps, rep_dst, rep_data, rep_len, rep_size, rt_vps, rc_redecode,
                   rc_encode, null_reads>>

\* fr_dhcp_recv returns NULL
RecvDrop ==
    /\ pc = "recv"
    /\ ~ RecvAccepts(wire)
    /\ pc' = "dropped"
    /\ UNCHANGED <<endian, wire, stale, rawint, req_data, req_code, req_vps, rc_decode,
                   rep_from, rep_code, rep_vps, rep_dst, rep_data, rep_len, rep_size,
                   rt_vps, rc_redecode,
                   rc_encode, null_reads>>

\* fr_dhcp_decode(request)
Decode ==
    /\ pc = "decode"
    /\ LET r == fr_dhcp_decode(req_data, stale, req_vps, rawint)
       IN  /\ rc_decode' = r.rc
           /\ req_vps' = r.vps
           /\ req_data' = r.data
           /\ pc' = IF r.rc = "ok" THEN "reply" ELSE "failed"
    /\ UNCHANGED <<endian, wire, stale, rawint, req_code, rep_from, rep_code, rep_vps, rep_dst,
                   rep_data, rep_len, rep_size, rt_vps, rc_redecode,
                   rc_encode, null_reads>>

\* the host answers with the request's own pairs
ReplyEcho ==
    /\ pc = "reply"
    /\ rep_from' = "echo"
    /\ rep_vps' = req_vps
    /\ rep_code' \in ReplyCodes
    /\ rep_dst' \in ReplyDsts
    /\ pc' = "encode"
    /\ UNCHANGED <<endian, wire, stale, rawint, req_data, req_code, req_vps, rc_decode,
                   rep_data, rep_len, rep_size, rt_vps, rc_redecode,
                   rc_encode, null_reads>>

\* the host answers with the request's pairs and the address it offers
ReplyOffer ==
    /\ pc = "reply"
    /\ wire \in RouteWires
    /\ rep_from' = "offer"
    /\ rep_vps' = [req_vps EXCEPT ![pairfind(req_vps, DHCP2ATTR(264))].octets = OfferedIP]
    /\ rep_code' \in ReplyCodes
    /\ rep_dst' \in ReplyDsts
    /\ pc' = "encode"
    /\ UNCHANGED <<endian, wire, stale, rawint, req_data, req_code, req_vps, rc_decode,
                   rep_data, rep_len, rep_size, rt_vps, rc_redecode,
                   rc_encode, null_reads>>

\* the host answers with a list of its own
ReplyBuilt ==
    /\ pc = "reply"
    /\ wire = CanonicalWire
    /\ rep_from' = "built"
    /\ rep_vps' \in HostLists
    /\ rep_code' = PW_DHCP_OFFER
    /\ rep_dst' = INADDR_ANY
    /\ pc' = "encode"
    /\ UNCHANGED <<endian, wire, stale, rawint, req_data, req_code, req_vps, rc_decode,
                   rep_data, rep_len, rep_size, rt_vps, rc_redecode,
                   rc_encode, null_reads>>

\* the host answers with one of the long lists
ReplyBulk ==
    /\ pc = "reply"
    /\ wire = CanonicalWire
    /\ rep_from' = "bulk"
    /\ rep_vps' \in BulkLists
    /\ rep_code' = PW_DHCP_OFFER
    /\ rep_dst' = INADDR_ANY
    /\ pc' = "encode"
    /\ UNCHANGED <<endian, wire, stale, rawint, req_data, req_code, req_vps, rc_decode,
                   rep_data, rep_len, rep_size, rt_vps, rc_redecode,
                   rc_encode, null_reads>>

\* the host builds a packet of its own and encodes it without an original
ReplyNoOriginal ==
    /\ pc = "reply"
    /\ wire = CanonicalWire
    /\ rep_from' = "client"
    /\ rep_vps' \in ListsUpTo(1)
    /\ rep_code' \in ReplyCodes
    /\ rep_dst' = INADDR_ANY
    /\ pc' = "encode"
    /\ UNCHANGED <<endian, wire, stale, rawint, req_data, req_code, req_vps, rc_decode,
                   rep_data, rep_len, rep_size, rt_vps, rc_redecode,
                   rc_encode, null_reads>>

\* fr_dhcp_encode(reply, request).  A store past the end of the malloc'd
\* buffer is undefined: the call may return with the bytes where it put
\* them, or the process may die of the damaged heap.
Encode ==
    /\ pc = "encode"
    /\ rep_from # "client"
    /\ rep_data = NoData
    /\ \E sorted \in SortOutcomes(PairsToSort(rep_vps, NtpStamp)), died \in BOOLEAN :
         LET r == fr_dhcp_encode(rep_code, rep_vps, NtpStamp, sorted, rep_dst,
                                 req_data, endian)
         IN  /\ died => r.overrun
             /\ rep_code' = r.code
             /\ rep_vps' = r.vps
             /\ rep_data' = r.data
             /\ rep_len' = r.data_len
             /\ rep_size' = r.dhcp_size
             /\ rep_dst' = r.dst
             /\ rc_encode' = IF died THEN "crash" ELSE "ok"
             /\ pc' = IF died THEN "aborted" ELSE "redecode"
    /\ UNCHANGED <<endian, wire, stale, rawint, req_data, req_code, req_vps, rc_decode,
                   rep_from, rt_vps, rc_redecode, null_reads>>

\* fr_dhcp_encode(packet, NULL).  The first statement that touches original
\* is the load of original->vps; original->data[2] and original->data + 10
\* are read next, and only then is original tested and -1 returned.  A load
\* through NULL is undefined: the process dies at the first one, or (page
\* zero readable) the loads give some bytes g and the function returns -1
\* with the buffer allocated and the first 24 bytes of the header written.
EncodeNoOriginal ==
    /\ pc = "encode"
    /\ rep_from = "client"
    /\ rep_data = NoData
    /\ \/ /\ rc_encode' = "crash"
          /\ null_reads' = 1
          /\ UNCHANGED <<rep_data, rep_len>>
       \/ \E g \in StaleBytes :
             /\ rc_encode' = "fail"
             /\ null_reads' = 3
             /\ rep_data' = <<1, 1, g, 0>> \o XidOfClient \o Zeros(2) \o Fill(6, g)
                             \o YourIP(AuthOption(rep_vps, NtpStamp))
                             \o Zeros(4) \o Zeros(4)
             /\ rep_len' = MAX_PACKET_SIZE
    /\ rep_code' = EncodeCode(rep_code)
    /\ rep_vps' = AuthOption(rep_vps, NtpStamp)
    /\ pc' = "aborted"
    /\ UNCHANGED <<endian, wire, stale, rawint, req_data, req_code, req_vps, rc_decode,
                   rep_from, rep_dst, rep_size, rt_vps, rc_redecode>>

\* fr_dhcp_decode on the encoded reply
Redecode ==
    /\ pc = "redecode"
    /\ LET r == fr_dhcp_decode(SubSeq(rep_data, 1, rep_len), stale, <<>>, rawint)
       IN  /\ rc_redecode' = r.rc
           /\ rt_vps' = r.vps
    /\ pc' = "done"
    /\ UNCHANGED <<endian, wire, stale, rawint, req_data, req_code, req_vps, rc_decode,
                   rep_from, rep_code, rep_vps, rep_dst, rep_data, rep_len, rep_size,
                   rc_encode, null_reads>>

Next ==
    \/ RecvPacket
    \/ RecvDrop
    \/ Decode
    \/ ReplyEcho
    \/ ReplyOffer
    \/ ReplyBuilt
    \/ ReplyBulk
    \/ ReplyNoOriginal
    \/ Encode
    \/ EncodeNoOriginal
    \/ Redecode

Spec == Init /\ [][Next]_vars

-----------------------------------------------------------------------------
(* Properties *)

Encoded == pc \in {"redecode", "done"}
Decoded == pc \in {"reply", "failed", "encode", "redecode", "done"}

\* the reply datagram: the first data_len bytes of the buffer
ReplyDatagram == SubSeq(rep_data, 1, rep_len)

Count(vps, attr) == Cardinality({ i \in DOMAIN vps : vps[i].attribute = attr })

\* C1: every datagram fr_dhcp_encode produces starts with op 2, carries the
\* magic cookie at 236..239 and [53, 1, code - PW_DHCP_OFFSET] at 240..242,
\* ends its options with 0xFF 0x00, has data_len = max(unpadded length, 576)
\* and is zero from the end marker to data_len.
C1_EncodedShape ==
    Encoded =>
        /\ Len(rep_data) >= rep_len
        /\ ReplyDatagram[1] = 2
        /\ SubSeq(ReplyDatagram, 237, 240) = DHCP_OPTION_MAGIC_NUMBER
        /\ SubSeq(ReplyDatagram, 241, 243) = <<53, 1, rep_code - PW_DHCP_OFFSET>>
        /\ rep_size >= 245
        /\ ReplyDatagram[rep_size - 1] = 255
        /\ ReplyDatagram[rep_size] = 0
        /\ rep_len = IF rep_size > DEFAULT_PACKET_SIZE THEN rep_size
                     ELSE DEFAULT_PACKET_SIZE
        /\ \A i \in (rep_size + 1)..rep_len : ReplyDatagram[i] = 0

\* a reply of several pairs was padded, and an entry that did not fit its
\* TLV had been written past the end marker
C1_Witness ==
    /\ Encoded
    /\ rep_size < rep_len
    /\ Len(rep_vps) = 3
    /\ Len(rep_data) > rep_len

-----------------------------------------------------------------------------
(* The option area of a datagram as RFC 2132 lays it out: pad bytes are    *)
(* skipped, the end code closes it.                                        *)

\* TRUE when the first option 53 of d from offset off on has length 1 and a
\* value in 1..7
RECURSIVE HasMessageType(_, _)
HasMessageType(d, off) ==
    IF off >= Len(d) \/ d[off + 1] = 255 THEN FALSE
    ELSE IF d[off + 1] = 0 THEN HasMessageType(d, off + 1)
    ELSE IF off + 1 >= Len(d) THEN FALSE
    ELSE IF d[off + 1] = 53
         THEN d[off + 2] = 1 /\ off + 2 < Len(d) /\ d[off + 3] \in 1..7
         ELSE HasMessageType(d, off + 2 + d[off + 2])

\* the number of options with the code in d from offset off on
RECURSIVE OptionsOf(_, _, _)
OptionsOf(d, off, code) ==
    IF off >= Len(d) \/ d[off + 1] = 255 THEN 0
    ELSE IF d[off + 1] = 0 THEN OptionsOf(d, off + 1, code)
    ELSE IF off + 1 >= Len(d) THEN 0
    ELSE (IF d[off + 1] = code THEN 1 ELSE 0)
         + OptionsOf(d, off + 2 + d[off + 2], code)

\* two pairs with the same code, type and payload
SamePair(a, b) ==
    /\ a.attribute = b.attribute
    /\ a.type = b.type
    /\ a.length = b.length
    /\ IF a.type \in IntTypes THEN a.integer = b.integer ELSE a.octets = b.octets

\* a pair that stands for an option other than DHCP-Message-Type
IsOptionPair(vp) ==
    /\ IS_DHCP_ATTR(vp)
    /\ vp.attribute % 65536 <= 255
    /\ vp.attribute # DHCP2ATTR(53)

\* C2: decoding a request, encoding the decoded list as the reply and
\* decoding the reply gives back every option pair of the first list with
\* the same code, type and payload.
C2_RoundTrip ==
    (pc = "done" /\ rep_from = "echo") =>
        /\ rc_redecode = "ok"
        /\ \A i \in DOMAIN req_vps :
              IsOptionPair(req_vps[i]) =>
                 \E j \in DOMAIN rt_vps : SamePair(req_vps[i], rt_vps[j])

PairsOfOption(code, len) ==
    LET width == CASE DictType(code) = "byte" -> 1
                   [] DictType(code) = "short" -> 2
                   [] DictType(code) \in {"integer", "ipaddr", "date"} -> 4
                   [] OTHER -> 0
    IN  IF code \notin DictCodes \/ len >= 253 THEN 0
        ELSE IF DictArray(code) /\ width # 0 /\ len % width = 0 THEN len \div width
        ELSE 1

\* the pairs with the attribute that the options of the receive buffer
\* stand for, from offset off with total bytes left, up to the first pad or
\* end code
RECURSIVE PairsOnWire(_, _, _, _, _)
PairsOnWire(d, st, off, total, code) ==
    IF total <= 0 \/ Rd(d, st, off) \in {0, 255} THEN 0
    ELSE LET len == Rd(d, st, off + 1)
         IN  (IF Rd(d, st, off) = code THEN PairsOfOption(code, len) ELSE 0)
             + PairsOnWire(d, st, off + len + 2, total - len - 2, code)

C4_RecvAccepts ==
    pc # "recv" =>
        ((pc # "dropped") <=>
            /\ Len(wire) >= MIN_PACKET_SIZE
            /\ wire[1] = 1 /\ wire[2] = 1 /\ wire[3] = 6
            /\ SubSeq(wire, 237, 240) = DHCP_OPTION_MAGIC_NUMBER
            /\ HasMessageType(wire, 240))

\* C5: the destination fr_dhcp_encode leaves in the reply is giaddr when the
\* request has one, else broadcast for a NAK, else ciaddr when the request
\* has one, else broadcast when bit 0x80 of request byte 10 is set, else
\* broadcast when the caller left the destination 0.0.0.0.
C5_Destination ==
    [][ (pc = "encode" /\ pc' = "redecode") =>
          LET giaddr == SubSeq(req_data, 25, 28)
              ciaddr == SubSeq(req_data, 13, 16)
          IN  IF giaddr # INADDR_ANY THEN rep_dst' = giaddr
              ELSE IF rep_code' = PW_DHCP_NAK THEN rep_dst' = INADDR_BROADCAST
              ELSE IF ciaddr # INADDR_ANY THEN rep_dst' = ciaddr
              ELSE IF BitSet(req_data[11], 128) THEN rep_dst' = INADDR_BROADCAST
              ELSE IF rep_dst = INADDR_ANY THEN rep_dst' = INADDR_BROADCAST
              ELSE TRUE ]_vars

\* C6: when the request has no giaddr and no ciaddr, its broadcast flag is
\* clear, the reply is no NAK and the caller left a destination, the reply
\* goes to the yiaddr written into bytes 16..19 of the reply.
C6_UnicastToOffered ==
    [][ ( /\ pc = "encode" /\ pc' = "redecode"
          /\ SubSeq(req_data, 25, 28) = INADDR_ANY
          /\ rep_code' # PW_DHCP_NAK
          /\ SubSeq(req_data, 13, 16) = INADDR_ANY
          /\ ~ BitSet(req_data[11], 128)
          /\ rep_dst # INADDR_ANY )
        => rep_dst' = SubSeq(rep_data', 17, 20) ]_vars

\* C7: after decoding a DHCPREQUEST without giaddr whose Vendor-Class-
\* Identifier is "MSFT 98", the flags pair has bit 0x8000 and byte 10 of the
\* datagram has bit 0x80.
C7_MsftFixup ==
    ( /\ Decoded /\ rc_decode = "ok"
      /\ SubSeq(wire, 25, 28) = INADDR_ANY
      /\ \E i \in DOMAIN req_vps :
            req_vps[i].attribute = DHCP2ATTR(53) /\ req_vps[i].integer = 3
      /\ \E i \in DOMAIN req_vps :
            req_vps[i].attribute = DHCP2ATTR(60) /\ req_vps[i].octets = MSFT98 )
    => /\ \E i \in DOMAIN req_vps :
             req_vps[i].attribute = DHCP2ATTR(262) /\ BitSet(req_vps[i].integer, 32768)
       /\ BitSet(req_data[11], 128)

\* C8: decode fails whenever an Interface-MTU pair is below 576,
\* and after a successful decode every Maximum-DHCP-Message-Size pair is at
\* least 576 and at most every Interface-MTU pair.
C8_EveryPairClamped ==
    Decoded =>
        /\ (\E i \in DOMAIN req_vps :
               req_vps[i].attribute = DHCP2ATTR(26)
               /\ req_vps[i].integer < DEFAULT_PACKET_SIZE) => rc_decode = "fail"
        /\ rc_decode = "ok" =>
              \A i \in DOMAIN req_vps :
                 req_vps[i].attribute = DHCP2ATTR(57) =>
                    /\ req_vps[i].integer >= DEFAULT_PACKET_SIZE
                    /\ \A j \in DOMAIN req_vps :
                          req_vps[j].attribute = DHCP2ATTR(26) =>
                             req_vps[i].integer <= req_vps[j].integer

\* C9: after the sort of fr_dhcp_encode every pair 53 precedes all others,
\* every pair 82 follows all others, and the rest are in non-decreasing
\* order of attribute.
C9_SortOrder ==
    Encoded =>
        \A i, j \in DOMAIN rep_vps :
           i < j =>
              LET a == rep_vps[i].attribute
                  b == rep_vps[j].attribute
              IN  /\ b = DHCP2ATTR(53) => a = DHCP2ATTR(53)
                  /\ a = DHCP2ATTR(82) => b = DHCP2ATTR(82)
                  /\ ({a, b} \cap {DHCP2ATTR(53), DHCP2ATTR(82)} = {}) => a <= b

\* the length bytes of the options of d from offset off up to offset end
\* are all at most 253
RECURSIVE LengthBytesAtMost253(_, _, _)
LengthBytesAtMost253(d, off, end) ==
    IF off >= end THEN TRUE
    ELSE d[off + 2] <= 253 /\ LengthBytesAtMost253(d, off + 2 + d[off + 2], end)

\* C10: no option of an encoded reply has a length byte above 253.
C10_TlvLength ==
    Encoded => LengthBytesAtMost253(ReplyDatagram, 240, rep_size - 2)

-----------------------------------------------------------------------------
(* The reply buffer *)

\* fr_dhcp_encode was called with an original and has ended
EncodeEnded == pc \in {"redecode", "done", "aborted"} /\ rep_from # "client"

\* C11: fr_dhcp_encode stores no byte at or past offset MAX_PACKET_SIZE of
\* its buffer, and the data_len it leaves is at most MAX_PACKET_SIZE.
C11_WithinBuffer ==
    EncodeEnded =>
        /\ Len(rep_data) <= MAX_PACKET_SIZE
        /\ rep_len <= MAX_PACKET_SIZE

-----------------------------------------------------------------------------
(* The options of the reply *)

\* the options of d from offset off up to offset end, as [code, val] records
RECURSIVE Tlvs(_, _, _)
Tlvs(d, off, end) ==
    IF off >= end THEN <<>>
    ELSE <<[code |-> d[off + 1], val |-> SubSeq(d, off + 3, off + 2 + d[off + 2])]>>
         \o Tlvs(d, off + 2 + d[off + 2], end)

\* the options of the encoded reply, up to its end marker
ReplyTlvs == Tlvs(ReplyDatagram, 240, rep_size - 2)

\* the reply carries the option with the code and exactly the payload
ReplyHasOption(code, val) ==
    \E i \in DOMAIN ReplyTlvs : ReplyTlvs[i] = [code |-> code, val |-> val]

\* the request's first option after DHCP-Message-Type is the code with the
\* payload
RequestHasOption(code, val) ==
    /\ Len(wire) >= 243 + 2 + Len(val)
    /\ SubSeq(wire, 244, 243 + 2 + Len(val)) = Opt(code, val)

\* C12: a Client-Identifier 01 + MAC decodes to one ETHERNET pair holding
\* the six MAC bytes, and the reply encoded from the decoded list carries
\* option 61 with length 7 and the same seven bytes.
C12_ClientIdentifier ==
    (Encoded /\ rep_from = "echo" /\ RequestHasOption(61, <<1>> \o ClientMac)) =>
        /\ Count(req_vps, DHCP2ATTR(61)) = 1
        /\ req_vps[pairfind(req_vps, DHCP2ATTR(61))].type = "ether"
        /\ req_vps[pairfind(req_vps, DHCP2ATTR(61))].octets = ClientMac
        /\ ReplyHasOption(61, <<1>> \o ClientMac)

\* C13: a Relay-Agent option with one sub-option of two bytes,
\* [82][4][sub][2][b0][b1], is found byte for byte in the reply encoded from
\* the decoded list.
C13_RelayAgentRoundTrip ==
    (Encoded /\ rep_from = "echo" /\ RequestHasOption(82, <<1, 2, 170, 187>>)) =>
        ReplyHasOption(82, <<1, 2, 170, 187>>)

\* the pairs of vps with the attribute, in their order in vps
RECURSIVE PairsOf(_, _)
PairsOf(vps, attr) ==
    IF vps = <<>> THEN <<>>
    ELSE (IF Head(vps).attribute = attr THEN <<Head(vps)>> ELSE <<>>)
         \o PairsOf(Tail(vps), attr)

\* the serialized values of the pairs of run, one after the other
RECURSIVE ValuesOf(_)
ValuesOf(run) ==
    IF run = <<>> THEN <<>> ELSE fr_dhcp_vp2attr(Head(run)) \o ValuesOf(Tail(run))

\* the number of options with the code among tlvs
TlvCount(tlvs, code) == Cardinality({ i \in DOMAIN tlvs : tlvs[i].code = code })

\* C14: the pairs of one option code whose values total at most 255 bytes
\* leave fr_dhcp_encode as exactly one option [code][total][values], the
\* values in the order the pairs had in the list before the sort.
C14_ArrayEmission ==
    [][ (pc = "encode" /\ pc' = "redecode") =>
          LET before == PairsToSort(rep_vps, NtpStamp)
              tlvs == Tlvs(ReplyDatagram', 243, rep_size' - 2)
          IN  \A code \in 1..254 :
                 LET vals == ValuesOf(PairsOf(before, DHCP2ATTR(code)))
                 IN  (PairsOf(before, DHCP2ATTR(code)) # <<>> /\ Len(vals) <= 255) =>
                        /\ TlvCount(tlvs, code) = 1
                        /\ \E i \in DOMAIN tlvs :
                              tlvs[i] = [code |-> code, val |-> vals] ]_vars

-----------------------------------------------------------------------------
(* The minimal datagram *)

\* C15 as claimed: the 244-byte datagram whose options are [53][1][1][255]
\* decodes to fifteen pairs, one per header field and DHCP-Message-Type 1.
C15_FifteenPairs ==
    (Decoded /\ wire = CanonicalWire) =>
        /\ rc_decode = "ok"
        /\ Len(req_vps) = 15
        /\ \A i \in 0..13 : Count(req_vps, DHCP2ATTR(256 + i)) = 1
        /\ Count(req_vps, DHCP2ATTR(53)) = 1
        /\ req_vps[pairfind(req_vps, DHCP2ATTR(53))].integer = 1

\* C15 as amended: that datagram decodes to thirteen pairs, one for each
\* of the twelve header fields opcode..client hardware address, none for
\* the empty server host name and boot file name, and DHCP-Message-Type 1.
C15_ThirteenPairs ==
    (Decoded /\ wire = CanonicalWire) =>
        /\ rc_decode = "ok"
        /\ Len(req_vps) = 13
        /\ \A i \in 0..11 : Count(req_vps, DHCP2ATTR(256 + i)) = 1
        /\ \A i \in 12..13 : Count(req_vps, DHCP2ATTR(256 + i)) = 0
        /\ Count(req_vps, DHCP2ATTR(53)) = 1
        /\ req_vps[pairfind(req_vps, DHCP2ATTR(53))].integer = 1

\* the minimal datagram was decoded
C15_Witness ==
    /\ pc = "reply"
    /\ wire = CanonicalWire
    /\ Len(wire) = MIN_PACKET_SIZE
    /\ Len(req_vps) = 13

-----------------------------------------------------------------------------
(* Encoding without an original request *)

\* C16: fr_dhcp_encode called with a NULL original returns failure and
\* reads no field of the missing original before it reports the failure.
C16_MissingOriginal ==
    (pc = "aborted" /\ rep_from = "client") =>
        /\ rc_encode = "fail"
        /\ null_reads = 0

-----------------------------------------------------------------------------
(* The reply header *)

\* bytes a..b (C offsets) of datagram d
Bytes(d, a, b) == SubSeq(d, a + 1, b + 1)

\* the value of the first pair with attribute 264 in vps, or zero
YourAddress(vps) ==
    IF Count(vps, DHCP2ATTR(264)) = 0 THEN <<0, 0, 0, 0>>
    ELSE LET first == CHOOSE i \in DOMAIN vps :
                          /\ vps[i].attribute = DHCP2ATTR(264)
                          /\ \A j \in 1..(i - 1) : vps[j].attribute # DHCP2ATTR(264)
         IN  [k \in 1..4 |-> IF k <= Len(vps[first].octets)
                              THEN vps[first].octets[k] ELSE 0]

\* C17: in every reply encoded from request B, byte 1 is 1, byte 2 is B[2],
\* hops, secs, siaddr and giaddr are zero, xid, flags and ciaddr are B's,
\* yiaddr is attribute 264 of the reply list or zero, chaddr is B's, and
\* bytes 44..235 are zero.
C17_HeaderEncode ==
    Encoded =>
        /\ rep_data[2] = 1
        /\ rep_data[3] = req_data[3]
        /\ rep_data[4] = 0
        /\ Bytes(rep_data, 8, 9) = <<0, 0>>
        /\ Bytes(rep_data, 20, 23) = <<0, 0, 0, 0>>
        /\ Bytes(rep_data, 24, 27) = <<0, 0, 0, 0>>
        /\ Bytes(rep_data, 4, 7) = Bytes(req_data, 4, 7)
        /\ Bytes(rep_data, 10, 15) = Bytes(req_data, 10, 15)
        /\ Bytes(rep_data, 16, 19) = YourAddress(rep_vps)
        /\ Bytes(rep_data, 28, 43) = Bytes(req_data, 28, 43)
        /\ \A k \in 44..235 : rep_data[k + 1] = 0

\* a reply to the relayed request that offers an address
C17_Witness ==
    /\ Encoded
    /\ req_data = RelayedWire
    /\ Count(rep_vps, DHCP2ATTR(264)) > 0
    /\ Bytes(rep_data, 16, 19) # <<0, 0, 0, 0>>
    /\ Bytes(req_data, 24, 27) # <<0, 0, 0, 0>>

-----------------------------------------------------------------------------
(* Skipped options *)

\* the C offset of the first option of d, walking from off, whose code is
\* not in the dictionary or whose length byte is >= 253; -1 when the walk
\* meets pad, end or the end of the datagram first
RECURSIVE FirstSkipped(_, _)
FirstSkipped(d, off) ==
    IF off + 1 >= Len(d) \/ d[off + 1] \in {0, 255} THEN -1
    ELSE IF d[off + 2] >= 253 \/ d[off + 1] \notin DictCodes THEN off
    ELSE FirstSkipped(d, off + 2 + d[off + 2])

\* d without the n bytes at C offset off
Without(d, off, n) == SubSeq(d, 1, off) \o SubSeq(d, off + n + 1, Len(d))

\* C18: an option with an unknown code or a length byte >= 253 makes no
\* pair, moves the walk by len + 2 bytes and does not end decoding: the
\* datagram decodes exactly as it does with those len + 2 bytes taken out,
\* and to no pair of an unknown code.
C18_SkipAndContinue ==
    (Decoded /\ rc_decode # "none" /\ FirstSkipped(wire, 240) >= 0) =>
        LET off == FirstSkipped(wire, 240)
            rest == fr_dhcp_decode(Without(wire, off, wire[off + 2] + 2),
                                   stale, <<>>, rawint)
        IN  /\ rc_decode = rest.rc
            /\ req_vps = rest.vps
            /\ \A i \in DOMAIN req_vps :
                   IS_DHCP_ATTR(req_vps[i]) /\ req_vps[i].attribute % 65536 < 256
                     => req_vps[i].attribute % 65536 \in DictCodes

\* an option of unknown code between two options that were decoded
C18_Witness ==
    /\ pc = "reply"
    /\ FirstSkipped(wire, 240) = 246
    /\ wire[247] = 200
    /\ Count(req_vps, DHCP2ATTR(12)) = 1
    /\ Count(req_vps, DHCP2ATTR(51)) = 1

-----------------------------------------------------------------------------
(* Typed and raw decoding of one option *)

\* the width of a fixed-width type, 0 for the others
FixedWidth(type) ==
    CASE type = "byte" -> 1
      [] type = "short" -> 2
      [] type \in {"integer", "ipaddr", "date"} -> 4
      [] OTHER -> 0

\* the number a byte string is in network order
RECURSIVE NetValue(_)
NetValue(bytes) ==
    IF bytes = <<>> THEN 0
    ELSE NetValue(SubSeq(bytes, 1, Len(bytes) - 1)) * 256 + bytes[Len(bytes)]

\* what an option of a fixed-width descriptor is to yield: the typed
\* slices of its value, or its value as one run of raw bytes
ExpectedEntries(code, val) ==
    LET w == FixedWidth(DictType(code))
    IN  IF DictArray(code) /\ Len(val) % w = 0
        THEN [k \in 1..(Len(val) \div w) |->
                 [type |-> DictType(code),
                  bytes |-> SubSeq(val, (k - 1) * w + 1, k * w)]]
        ELSE IF ~ DictArray(code) /\ Len(val) = w
        THEN << [type |-> DictType(code), bytes |-> val] >>
        ELSE << [type |-> "octets", bytes |-> val] >>

\* pair vp is the entry e of option code.  The value of pair 57 is left
\* out: the negotiation clamp may have rewritten it.
Carries(vp, code, e) ==
    /\ vp.attribute = DHCP2ATTR(code)
    /\ vp.type = e.type
    /\ vp.length = Len(e.bytes)
    /\ IF e.type \in IntTypes
       THEN code = 57 \/ vp.integer = NetValue(e.bytes)
       ELSE vp.octets = e.bytes

\* the datagram's first option after [53][1][t] is a whole option of a
\* fixed-width descriptor with a length byte below 253
FixedWidthOptionFirst(d) ==
    /\ Len(d) >= 246
    /\ d[2] = 1
    /\ SubSeq(d, 241, 242) = <<53, 1>>
    /\ d[244] \in DictCodes
    /\ FixedWidth(DictType(d[244])) > 0
    /\ d[245] < 253
    /\ 245 + d[245] <= Len(d)

\* the pairs of vps that are header fields
HeaderCount(vps) ==
    Cardinality({ i \in DOMAIN vps : vps[i].attribute % 65536 >= 256 })

\* C19: a recognized option of a fixed-width type yields len/width typed
\* pairs holding its consecutive slices when it is an array and len is a
\* multiple of the width, one typed pair when it is not an array and len is
\* the width, and one OCTETS pair of its len bytes otherwise; the walk then
\* goes on len + 2 bytes further.
C19_TypedOrRaw ==
    (Decoded /\ rc_decode # "none" /\ FixedWidthOptionFirst(wire)) =>
        LET code == wire[244]
            len == wire[245]
            exp == ExpectedEntries(code, SubSeq(wire, 246, 245 + len))
            at == HeaderCount(req_vps) + 1
            rest == fr_dhcp_decode(Without(wire, 243, len + 2), stale, <<>>, rawint).vps
        IN  /\ rc_decode # "crash"
            /\ Len(req_vps) = Len(rest) + Len(exp)
            /\ \A k \in 1..Len(exp) : Carries(req_vps[at + k], code, exp[k])
            /\ \A j \in (at + 1)..Len(rest) :
                   /\ req_vps[j + Len(exp)].attribute = rest[j].attribute
                   /\ req_vps[j + Len(exp)].type = rest[j].type
                   /\ req_vps[j + Len(exp)].octets = rest[j].octets

-----------------------------------------------------------------------------
(* Runs that do not fit one option *)

\* the longest prefix of run whose values total at most 255 bytes
RECURSIVE LongestFit(_, _)
LongestFit(run, k) ==
    IF k < Len(run) /\ Len(ValuesOf(SubSeq(run, 1, k + 1))) <= 255
    THEN LongestFit(run, k + 1)
    ELSE SubSeq(run, 1, k)

\* the orders in which the pairs of run can stand after the sort
Arrangements(run) ==
    { [i \in DOMAIN run |-> run[f[i]]] :
        f \in { g \in [DOMAIN run -> DOMAIN run] :
                   \A a, b \in DOMAIN run : a # b => g[a] # g[b] } }

\* C20: when the values of a run of equal-code pairs total more than 255
\* bytes, the reply holds exactly one option of that code, carrying the
\* longest prefix of the run that fits; no other entry of the run is
\* emitted, and the pairs after the run are packed.
C20_OverflowPolicy ==
    [][ (pc = "encode" /\ pc' = "redecode") =>
          LET before == PairsToSort(rep_vps, NtpStamp)
              tlvs == Tlvs(ReplyDatagram', 243, rep_size' - 2)
          IN  \A code \in 1..254 :
                 LET run == PairsOf(before, DHCP2ATTR(code))
                 IN  Len(ValuesOf(run)) > 255 =>
                        /\ TlvCount(tlvs, code) = 1
                        /\ \E i \in DOMAIN tlvs, r \in Arrangements(run) :
                              tlvs[i] = [code |-> code, val |-> ValuesOf(LongestFit(r, 0))]
                        /\ \A other \in 1..254 :
                              PairsOf(before, DHCP2ATTR(other)) # <<>>
                                => TlvCount(tlvs, other) >= 1 ]_vars

-----------------------------------------------------------------------------
(* The Authentication option *)

\* the list holds one pair 90, a Configuration Token shorter than 3 bytes,
\* and no Cleartext-Password
ShortTokenOnly(vps) ==
    /\ Count(vps, DHCP2ATTR(90)) = 1
    /\ Count(vps, PW_CLEARTEXT_PASSWORD) = 0
    /\ LET vp == vps[pairfind(vps, DHCP2ATTR(90))]
       IN  /\ vp.length < 3
           /\ (vp.length >= 1 => vp.octets[1] = 0)

\* C21: a pair 90 shorter than 3 bytes whose byte 0 is 0, with no
\* Cleartext-Password in the list, has length 11 after fr_dhcp_encode and
\* leaves as an option 90 whose length byte is 11.
C21_AuthHeaderOnly ==
    [][ (pc = "encode" /\ pc' = "redecode" /\ ShortTokenOnly(rep_vps)) =>
          LET tlvs == Tlvs(ReplyDatagram', 243, rep_size' - 2)
          IN  /\ rep_vps'[pairfind(rep_vps', DHCP2ATTR(90))].length = 11
              /\ TlvCount(tlvs, 90) = 1
              /\ \A i \in DOMAIN tlvs : tlvs[i].code = 90 => Len(tlvs[i].val) = 11 ]_vars

-----------------------------------------------------------------------------
(* Reads of the receive buffer *)

\* C22: the option walk of fr_dhcp_decode loads no byte of the datagram at
\* an offset >= data_len, neither a length byte nor a byte of a value.
C22_NoReadPastEnd ==
    (Decoded /\ rc_decode # "none") =>
        OptionReads(wire, stale, 240, Len(wire) - 240) < Len(wire)

-----------------------------------------------------------------------------
(* The pair in hand at vp->length = alen *)

\* C23: fr_dhcp_decode never stores through a NULL pair when it sets the
\* length of a decoded entry; a non-array DATE option of length 4 yields
\* one pair and decode returns normally.
C23_LivePair ==
    /\ rc_decode # "crash"
    /\ (Decoded /\ rc_decode # "none"
          /\ Len(wire) = 250
          /\ SubSeq(wire, 241, 245) = <<53, 1, 1, 101, 4>>
          /\ wire[250] = 255) =>
            /\ rc_decode = "ok"
            /\ Count(req_vps, DHCP2ATTR(101)) = 1

-----------------------------------------------------------------------------
(* The list after a failed decode *)

\* C24: when fr_dhcp_decode returns failure the packet's attribute list is
\* what it was before the call.
C24_FailureLeavesList ==
    [][ (pc = "decode" /\ rc_decode' = "fail") => req_vps' = req_vps ]_vars

-----------------------------------------------------------------------------
(* The negotiated size *)

\* C25: every reply fr_dhcp_encode produces is at most mms bytes long,
\* mms being 576 unless the request's Maximum-DHCP-Message-Size is larger,
\* and then that value capped at 1460.
C25_WithinNegotiatedSize ==
    Encoded => rep_len <= MaximumMessageSize(req_vps)

-----------------------------------------------------------------------------
(* Termination of the option walk *)

\* every pass of the loop leaves at least 2 bytes fewer to walk
WalkDecreases(d, st) ==
    LET t == WalkTotals(d, st, 240, Len(d) - 240)
    IN  \A k \in 1..(Len(t) - 1) : t[k + 1] <= t[k] - 2

\* C26: the option walk ends on every datagram, each pass either stopping
\* at a pad or end code or leaving at least 2 bytes fewer to walk, and
\* fr_dhcp_decode then reaches its post-decode policy or returns failure.
C26_WalkTerminates ==
    (Decoded /\ rc_decode # "none") =>
        /\ WalkDecreases(wire, stale)
        /\ rc_decode \in {"ok", "fail"}

====
